---------------------------- MODULE Spec2Model ----------------------------
(***************************************************************************)
(* A model of libcontainer/configs/config.go: the scheduler-attribute      *)
(* translation (ToSchedAttr), the CPU-set parser (toCPUSet,                *)
(* ConvertCPUAffinity), the hook registry with its JSON form               *)
(* (Hooks.MarshalJSON / Hooks.UnmarshalJSON), HookList.SetDefaultEnv and   *)
(* the hook runner (Hooks.Run, FuncHook.Run, Command.Run).                 *)
(*                                                                         *)
(* Go strings that the code inspects character by character (CPU specs)    *)
(* are sequences of one-character strings; other strings are atoms.        *)
(* A Go slice is a record [isNil, elems], so that nil and an empty,         *)
(* non-nil slice stay different values.                                    *)
(***************************************************************************)
EXTENDS Integers, Sequences, FiniteSets, TLC

VARIABLES
    \* ---- ToSchedAttr
    scheduler,      \* the *Scheduler argument: [Policy, Flags, Nice, Priority, ...]
    attr,           \* what ToSchedAttr returned
    \* ---- toCPUSet / ConvertCPUAffinity
    cpuStr,         \* the str argument of toCPUSet
    cpuRes,         \* what toCPUSet returned
    sa,             \* the *specs.CPUAffinity argument: [Initial, Final]
    affRes,         \* what ConvertCPUAffinity returned
    \* ---- the registry and the Commands its CommandHooks point to
    hooks,          \* Hooks: a map HookName -> HookList
    heap,           \* the *Command pointees: pointer -> Command
    \* ---- Hooks.MarshalJSON / Hooks.UnmarshalJSON
    encoded,        \* the JSON document MarshalJSON produced
    decoded,        \* the registry UnmarshalJSON built from it
    \* ---- Hooks.Run
    rpc,            \* position of the caller in Hooks.Run
    rname,          \* its name argument
    ri,             \* the loop index i
    started,        \* indices of the hooks whose Run was called, in call order
    outcomes,       \* what each finished hook returned, in completion order
    rerr,           \* what Hooks.Run returned
    \* ---- Command.Run (one call at a time: Hooks.Run is sequential)
    cpc,            \* position of the calling goroutine in Command.Run
    cptr,           \* the receiver c (a pointer into heap)
    spawnReq,       \* the exec.Cmd handed to cmd.Start
    proc,           \* the child process: none / running / exited / reaped
    status,         \* how the child ended: ok / fail / killed
    killCalled,     \* cmd.Process.Kill() was called
    killSent,       \* ... and found the process alive, so SIGKILL was delivered
    wpc,            \* position of the waiter goroutine (go func() {...})
    errC,           \* the channel errC (capacity 1)
    timer,          \* the timer: none / armed / fired / stopped
    timerC,         \* the channel timer.C (capacity 1)
    cres,           \* what Command.Run returned
    order,          \* history: the events exit / reported / fired, in order
    selReady        \* history: the channels that were ready when select chose

schedVars == <<scheduler, attr>>
cpuVars   == <<cpuStr, cpuRes, sa, affRes>>
hookVars  == <<hooks, heap>>
jsonVars  == <<encoded, decoded>>
runVars   == <<rpc, rname, ri, started, outcomes, rerr>>
cmdVars   == <<cpc, cptr, spawnReq, proc, status, killCalled, killSent, wpc,
               errC, timer, timerC, cres, order, selReady>>
vars      == <<schedVars, cpuVars, hookVars, jsonVars, runVars, cmdVars>>

-----------------------------------------------------------------------------
(* Generic helpers *)

Range(s) == {s[i] : i \in 1..Len(s)}

\* All sequences over S of length 0..n.
SeqsUpTo(S, n) == UNION {[1..k -> S] : k \in 0..n}

\* A Go slice: nil, or the (possibly empty) elements.  A *time.Duration: nil,
\* or the duration.
NilSlice == [isNil |-> TRUE, elems |-> <<>>]
Slice(s) == [isNil |-> FALSE, elems |-> s]
NilDuration == [isNil |-> TRUE, val |-> 0]
Duration(d) == [isNil |-> FALSE, val |-> d]

-----------------------------------------------------------------------------
(* ToSchedAttr *)

\* Bound: the longest Flags slice tried.
MaxFlags == 3

\* unix.SizeofSchedAttr (0x38), the value the code stores in Size.
SizeofSchedAttr == 56

\* The policy and flag names of specs (runtime-spec), in the order of the
\* switch statements, and one name outside each vocabulary.
SchedPolicies ==
    {"SCHED_OTHER", "SCHED_FIFO", "SCHED_RR", "SCHED_BATCH", "SCHED_ISO",
     "SCHED_IDLE", "SCHED_DEADLINE"}
SchedFlags ==
    {"SCHED_FLAG_RESET_ON_FORK", "SCHED_FLAG_RECLAIM", "SCHED_FLAG_DL_OVERRUN",
     "SCHED_FLAG_KEEP_POLICY", "SCHED_FLAG_KEEP_PARAMS",
     "SCHED_FLAG_UTIL_CLAMP_MIN", "SCHED_FLAG_UTIL_CLAMP_MAX"}
UnknownToken == "SCHED_BOGUS"

\* a | b on naturals, bit by bit.
RECURSIVE BitOr(_, _)
BitOr(a, b) ==
    IF a = 0 THEN b
    ELSE IF b = 0 THEN a
    ELSE (IF a % 2 = 1 \/ b % 2 = 1 THEN 1 ELSE 0) + 2 * BitOr(a \div 2, b \div 2)

\* The switch on scheduler.Policy: the policy code, or -1 for the default arm.
PolicyCode(p) ==
    CASE p = "SCHED_OTHER"    -> 0
      [] p = "SCHED_FIFO"     -> 1
      [] p = "SCHED_RR"       -> 2
      [] p = "SCHED_BATCH"    -> 3
      [] p = "SCHED_ISO"      -> 4
      [] p = "SCHED_IDLE"     -> 5
      [] p = "SCHED_DEADLINE" -> 6
      [] OTHER                -> -1

\* The switch on flag: the bit OR-ed into flags, or -1 for the default arm.
FlagBit(f) ==
    CASE f = "SCHED_FLAG_RESET_ON_FORK"  -> 1
      [] f = "SCHED_FLAG_RECLAIM"        -> 2
      [] f = "SCHED_FLAG_DL_OVERRUN"     -> 4
      [] f = "SCHED_FLAG_KEEP_POLICY"    -> 8
      [] f = "SCHED_FLAG_KEEP_PARAMS"    -> 16
      [] f = "SCHED_FLAG_UTIL_CLAMP_MIN" -> 32
      [] f = "SCHED_FLAG_UTIL_CLAMP_MAX" -> 64
      [] OTHER                           -> -1

\* A slip a maintainer could make: accumulating with += instead of |=.
OrFlagAdd(flags, f) == flags + FlagBit(f)

\* One recognised iteration of the loop body: flags |= bit.
OrFlag(flags, f) == BitOr(flags, FlagBit(f))

\* The loop over scheduler.Flags from position i with the flags gathered so
\* far: the final flags, or the error of the first unrecognised flag.
RECURSIVE FlagsLoop(_, _, _)
FlagsLoop(fs, i, flags) ==
    IF i > Len(fs) THEN [ok |-> TRUE, flags |-> flags, token |-> ""]
    ELSE IF FlagBit(fs[i]) = -1
         THEN [ok |-> FALSE, flags |-> 0, token |-> fs[i]]
         ELSE FlagsLoop(fs, i + 1, OrFlag(flags, fs[i]))

\* The fixed-width integers of the two records. A value is its bit pattern,
\* in 16-bit limbs with the least significant first, together with the
\* signedness of its Go type: specs.Scheduler has Nice and Priority int32 and
\* Runtime, Deadline and Period uint64; unix.SchedAttr has Nice int32,
\* Priority uint32 and Runtime, Deadline and Period uint64.
LimbBase == 65536
Int32(limbs) == [signed |-> TRUE, limbs |-> limbs]
Uint32Of(limbs) == [signed |-> FALSE, limbs |-> limbs]
Uint64(limbs) == [signed |-> FALSE, limbs |-> limbs]

\* A slip a maintainer could make: clamping a negative priority to zero
\* instead of converting it.
Uint32Saturating(x) ==
    IF x.signed /\ x.limbs[2] >= LimbBase \div 2
    THEN Uint32Of(<<0, 0>>)
    ELSE Uint32Of(x.limbs)

\* The conversion uint32(x) of an int32: the same 32 bits, read as unsigned.
Uint32(x) == Uint32Of(x.limbs)

NoAttr == [called |-> FALSE, ok |-> FALSE, Size |-> 0, Policy |-> 0, Flags |-> 0,
           Nice |-> Int32(<<0, 0>>), Priority |-> Uint32Of(<<0, 0>>),
           Runtime |-> Uint64(<<0, 0, 0, 0>>),
           Deadline |-> Uint64(<<0, 0, 0, 0>>),
           Period |-> Uint64(<<0, 0, 0, 0>>),
           err |-> "", token |-> ""]

ToSchedAttr(s) ==
    IF PolicyCode(s.Policy) = -1
    THEN [NoAttr EXCEPT !.called = TRUE, !.err = "invalid scheduler policy",
                        !.token = s.Policy]
    ELSE LET l == FlagsLoop(s.Flags, 1, 0) IN
         IF ~l.ok
         THEN [NoAttr EXCEPT !.called = TRUE, !.err = "invalid scheduler flag",
                             !.token = l.token]
         ELSE [called |-> TRUE, ok |-> TRUE, Size |-> SizeofSchedAttr,
               Policy |-> PolicyCode(s.Policy), Flags |-> l.flags,
               Nice |-> s.Nice, Priority |-> Uint32(s.Priority),
               Runtime |-> s.Runtime, Deadline |-> s.Deadline,
               Period |-> s.Period,
               err |-> "", token |-> ""]

\* The values tried for the numeric fields: nice -20 and 19; priority
\* -2^31, -1, 0 and 2^31 - 1; runtime 1 and 2^64 - 1; deadline 2^63; period
\* 2^32.
NiceInputs == {Int32(<<65516, 65535>>), Int32(<<19, 0>>)}
PriorityInputs ==
    {Int32(<<0, 32768>>), Int32(<<65535, 65535>>), Int32(<<0, 0>>),
     Int32(<<65535, 32767>>)}
RuntimeInputs == {Uint64(<<1, 0, 0, 0>>), Uint64(<<65535, 65535, 65535, 65535>>)}
DeadlineInputs == {Uint64(<<0, 0, 0, 32768>>)}
PeriodInputs == {Uint64(<<0, 0, 1, 0>>)}

SchedInputs ==
    [Policy   : SchedPolicies \cup {UnknownToken},
     Flags    : SeqsUpTo(SchedFlags \cup {UnknownToken}, MaxFlags),
     Nice     : NiceInputs,
     Priority : PriorityInputs,
     Runtime  : RuntimeInputs,
     Deadline : DeadlineInputs,
     Period   : PeriodInputs]

SchedUnused ==
    /\ scheduler = [Policy |-> "SCHED_OTHER", Flags |-> <<>>,
                    Nice |-> Int32(<<0, 0>>), Priority |-> Int32(<<0, 0>>),
                    Runtime |-> Uint64(<<0, 0, 0, 0>>),
                    Deadline |-> Uint64(<<0, 0, 0, 0>>),
                    Period |-> Uint64(<<0, 0, 0, 0>>)]
    /\ attr = NoAttr

CallToSchedAttr ==
    /\ ~attr.called
    /\ attr' = ToSchedAttr(scheduler)
    /\ UNCHANGED <<scheduler, cpuVars, hookVars, jsonVars, runVars, cmdVars>>

-----------------------------------------------------------------------------
(* toCPUSet and ConvertCPUAffinity *)

\* Bounds: the longest str tried by toCPUSet, and the longest Initial / Final
\* tried by ConvertCPUAffinity.
MaxLen == 5
MaxSideLen == 3

\* unsafe.Sizeof(unix.CPUSet{}) on linux: 16 words of 8 bytes.
CPUSetWords == 16
CPUSetBytes == 128

\* maxCPU := uint64(unsafe.Sizeof(*s) * 8)
maxCPU == CPUSetBytes * 8

Digits == <<"0", "1", "2", "3", "4", "5", "6", "7", "8", "9">>

\* The characters the specs tried are written with.
CPUAlphabet == {"0", "1", "2", "3", "4", ",", "-", " "}
AffAlphabet == {"0", "3", ",", "-", " "}

DigitValue(c) == (CHOOSE i \in 1..10 : Digits[i] = c) - 1

IsDigit(c) == c \in Range(Digits)

\* strings.Split(s, ","): the pieces between commas, from position i on, cur
\* being the piece read so far.
RECURSIVE SplitFrom(_, _, _)
SplitFrom(s, i, cur) ==
    IF i > Len(s) THEN <<cur>>
    ELSE IF s[i] = "," THEN <<cur>> \o SplitFrom(s, i + 1, <<>>)
    ELSE SplitFrom(s, i + 1, Append(cur, s[i]))

Split(s) == SplitFrom(s, 1, <<>>)

\* strings.TrimSpace on the characters tried (the only white space is " ").
RECURSIVE TrimLeft(_)
TrimLeft(s) == IF s # <<>> /\ Head(s) = " " THEN TrimLeft(Tail(s)) ELSE s

RECURSIVE TrimRight(_)
TrimRight(s) ==
    IF s # <<>> /\ s[Len(s)] = " " THEN TrimRight(SubSeq(s, 1, Len(s) - 1)) ELSE s

TrimSpace(s) == TrimRight(TrimLeft(s))

\* strings.Cut(r, "-"): around the first "-".
Cut(r) ==
    IF \E i \in 1..Len(r) : r[i] = "-"
    THEN LET i == CHOOSE k \in 1..Len(r) : r[k] = "-" /\ \A j \in 1..(k - 1) : r[j] # "-"
         IN [before |-> SubSeq(r, 1, i - 1), after |-> SubSeq(r, i + 1, Len(r)),
             found |-> TRUE]
    ELSE [before |-> r, after |-> <<>>, found |-> FALSE]

\* The value of a string of decimal digits.
RECURSIVE DecimalValue(_, _)
DecimalValue(v, acc) ==
    IF v = <<>> THEN acc ELSE DecimalValue(Tail(v), 10 * acc + DigitValue(Head(v)))

\* strconv.ParseUint(v, 10, 32): digits only, at least one.  (No str tried
\* is long enough to leave 32 bits.)
ParseUint(v) ==
    IF v = <<>> \/ \E i \in 1..Len(v) : ~IsDigit(v[i])
    THEN [val |-> 0, err |-> "invalid syntax"]
    ELSE [val |-> DecimalValue(v, 0), err |-> ""]

\* The closure toInt.
toInt(v) ==
    LET r == ParseUint(v) IN
    IF r.err # "" THEN [val |-> 0, err |-> r.err]
    ELSE IF r.val >= maxCPU THEN [val |-> 0, err |-> "values larger than maxCPU-1"]
    ELSE [val |-> r.val, err |-> ""]

\* (*unix.CPUSet).Set: sets the bit, silently ignoring a cpu beyond the words.
CPUSetSet(s, cpu) == IF cpu \div 64 < CPUSetWords THEN s \cup {cpu} ELSE s

\* (*unix.CPUSet).Count
CPUSetCount(s) == Cardinality(s)

\* for i := start; i <= end; i++ { s.Set(i) }: the bits that s.Set(i) sets
\* for the i of start..end, added to s (Set only ever adds a bit, so the
\* order of the iterations does not show in the result).
RangeLoop(s, start, end) == s \cup UNION {CPUSetSet({}, i) : i \in start..end}

\* A slip a maintainer could make: for i := start; i < end; i++.
RangeStepExclusive(s, start, end) == RangeLoop(s, start, end - 1)

\* The range arm of the loop body, start <= end having been checked.
RangeStep(s, start, end) == RangeLoop(s, start, end)

\* One iteration of the loop over the pieces: the set afterwards, or the error.
Segment(s, piece) ==
    LET r == TrimSpace(piece) IN
    IF r = <<>> THEN [set |-> s, err |-> ""]
    ELSE LET c == Cut(r) IN
         IF c.found
         THEN LET start == toInt(c.before)
                  end   == toInt(c.after)
              IN IF start.err # "" THEN [set |-> {}, err |-> start.err]
                 ELSE IF end.err # "" THEN [set |-> {}, err |-> end.err]
                 ELSE IF start.val > end.val THEN [set |-> {}, err |-> "invalid range"]
                 ELSE [set |-> RangeStep(s, start.val, end.val), err |-> ""]
         ELSE LET val == toInt(r)
              IN IF val.err # "" THEN [set |-> {}, err |-> val.err]
                 ELSE [set |-> CPUSetSet(s, val.val), err |-> ""]

\* The loop over strings.Split(str, ","), from piece i on.
RECURSIVE SegmentsLoop(_, _, _)
SegmentsLoop(pieces, i, s) ==
    IF i > Len(pieces) THEN [set |-> s, err |-> ""]
    ELSE LET r == Segment(s, pieces[i]) IN
         IF r.err # "" THEN r ELSE SegmentsLoop(pieces, i + 1, r.set)

\* What toCPUSet returns: (nil, nil), (nil, err) or (s, nil).
NoCPUSet == [isNil |-> TRUE, set |-> {}, err |-> ""]

toCPUSet(str) ==
    IF str = <<>> THEN NoCPUSet
    ELSE LET r == SegmentsLoop(Split(str), 1, {}) IN
         IF r.err # "" THEN [NoCPUSet EXCEPT !.err = r.err]
         ELSE IF CPUSetCount(r.set) = 0 THEN [NoCPUSet EXCEPT !.err = "no CPUs found"]
         ELSE [isNil |-> FALSE, set |-> r.set, err |-> ""]

\* What ConvertCPUAffinity returns: (nil, nil), (nil, err) or (&CPUAffinity, nil).
NoAffinity == [isNil |-> TRUE, Initial |-> NoCPUSet, Final |-> NoCPUSet,
               side |-> "", err |-> ""]

\* A slip a maintainer could make: treating "no CPUs found" on a side as
\* "that side is not configured".
ConvertCPUAffinityLenient(a) ==
    LET initial == toCPUSet(a.Initial)
        final   == toCPUSet(a.Final)
        bad(r)  == r.err # "" /\ r.err # "no CPUs found"
    IN  IF a.isNil THEN NoAffinity
        ELSE IF bad(initial)
             THEN [NoAffinity EXCEPT !.side = "Initial", !.err = initial.err]
        ELSE IF bad(final)
             THEN [NoAffinity EXCEPT !.side = "Final", !.err = final.err]
        ELSE IF initial.isNil /\ final.isNil THEN NoAffinity
        ELSE [isNil |-> FALSE, Initial |-> [initial EXCEPT !.err = ""],
              Final |-> [final EXCEPT !.err = ""], side |-> "", err |-> ""]

ConvertCPUAffinity(a) ==
    IF a.isNil THEN NoAffinity
    ELSE LET initial == toCPUSet(a.Initial) IN
         IF initial.err # ""
         THEN [NoAffinity EXCEPT !.side = "Initial", !.err = initial.err]
         ELSE LET final == toCPUSet(a.Final) IN
              IF final.err # ""
              THEN [NoAffinity EXCEPT !.side = "Final", !.err = final.err]
              ELSE IF initial.isNil /\ final.isNil THEN NoAffinity
              ELSE [isNil |-> FALSE, Initial |-> initial, Final |-> final,
                    side |-> "", err |-> ""]

NotCalled == [called |-> FALSE]

NilAffinitySpec == [isNil |-> TRUE, Initial |-> <<>>, Final |-> <<>>]

AffinityInputs ==
    {NilAffinitySpec} \cup
    [isNil : {FALSE}, Initial : SeqsUpTo(AffAlphabet, MaxSideLen),
     Final : SeqsUpTo(AffAlphabet, MaxSideLen)]

CPUUnused ==
    /\ cpuStr = <<>>
    /\ cpuRes = NotCalled
    /\ sa = NilAffinitySpec
    /\ affRes = NotCalled

CallToCPUSet ==
    /\ ~cpuRes.called
    /\ cpuRes' = [called |-> TRUE, ret |-> toCPUSet(cpuStr)]
    /\ UNCHANGED <<cpuStr, sa, affRes, schedVars, hookVars, jsonVars, runVars, cmdVars>>

CallConvertCPUAffinity ==
    /\ ~affRes.called
    /\ affRes' = [called |-> TRUE, ret |-> ConvertCPUAffinity(sa)]
    /\ UNCHANGED <<cpuStr, cpuRes, sa, schedVars, hookVars, jsonVars, runVars, cmdVars>>

-----------------------------------------------------------------------------
(* The registry: HookName, HookList, Hooks, Hook, FuncHook, CommandHook *)

\* Bound: the number of registrations (appended hooks and stored empty lists)
\* a registry is built with.
MaxEntries == 3

\* KnownHookNames(), in its order.
KnownHookNames ==
    <<"prestart", "createRuntime", "createContainer", "startContainer",
      "poststart", "poststop">>

\* HookName is a string type: a registry can hold a name outside the six.
JSONNames == Range(KnownHookNames) \cup {"custom"}

\* The names the runner is exercised with: two that get hooks, one that never
\* does.
RunNames == {"prestart", "poststop"}
AbsentName == "createRuntime"

\* The Commands the CommandHooks tried point to.  "/bin/<FF>" stands for a
\* path holding a byte that is not valid UTF-8.
CmdPtrs == {1, 2, 3}
InitHeap ==
    [p \in CmdPtrs |->
        CASE p = 1 -> [Path |-> "/bin/a", Args |-> Slice(<<"a", "-v">>), Env |-> NilSlice,
                       Dir |-> "/work", Timeout |-> NilDuration]
          [] p = 2 -> [Path |-> "/bin/b", Args |-> NilSlice, Env |-> Slice(<<"K=V">>),
                       Dir |-> "", Timeout |-> Duration(1)]
          [] p = 3 -> [Path |-> "/bin/<FF>", Args |-> Slice(<<>>), Env |-> Slice(<<>>),
                       Dir |-> "/", Timeout |-> Duration(2)]]

\* NewFunctionHook(f): f returns nil (fails = FALSE) or an error.
FunctionHook(fails) == [kind |-> "func", fails |-> fails, ptr |-> 0]

\* NewCommandHook(cmd): the hook holds the pointer, not a copy.
CommandHook(ptr) == [kind |-> "cmd", fails |-> FALSE, ptr |-> ptr]

HookChoices == {FunctionHook(FALSE), FunctionHook(TRUE)} \cup {CommandHook(p) : p \in CmdPtrs}

\* hooks[name] of a Go map: the nil (empty) list for a missing key.
Lookup(h, n) == IF n \in DOMAIN h THEN h[n] ELSE <<>>

\* h with h[n] = l.
Store(h, n, l) == [m \in DOMAIN h \cup {n} |-> IF m = n THEN l ELSE h[m]]

RECURSIVE SumLen(_, _)
SumLen(h, D) ==
    IF D = {} THEN 0
    ELSE LET n == CHOOSE m \in D : TRUE
         IN (IF h[n] = <<>> THEN 1 ELSE Len(h[n])) + SumLen(h, D \ {n})

Entries(h) == SumLen(h, DOMAIN h)

EmptyRegistry == [n \in {} |-> <<>>]

\* The caller's hooks[n] = append(hooks[n], h).
RegisterHook(n, h) ==
    /\ rpc = "idle"
    /\ ~encoded.done
    /\ Entries(hooks) < MaxEntries
    /\ hooks' = Store(hooks, n, Append(Lookup(hooks, n), h))
    /\ UNCHANGED <<heap, schedVars, cpuVars, jsonVars, runVars, cmdVars>>

\* The caller's hooks[n] = HookList{}.
RegisterEmpty(n) ==
    /\ rpc = "idle"
    /\ ~encoded.done
    /\ n \notin DOMAIN hooks
    /\ Entries(hooks) < MaxEntries
    /\ hooks' = Store(hooks, n, <<>>)
    /\ UNCHANGED <<heap, schedVars, cpuVars, jsonVars, runVars, cmdVars>>

-----------------------------------------------------------------------------
(* Hooks.MarshalJSON and Hooks.UnmarshalJSON *)

\* JSON values: null, an array, a number.  (A JSON string is the atom.)
JNull == [t |-> "null", elems |-> <<>>]
JArray(s) == [t |-> "array", elems |-> s]
JNoNumber == [t |-> "null", val |-> 0]
JNumber(v) == [t |-> "number", val |-> v]

\* encoding/json writes a Go string as JSON text: bytes that are not valid
\* UTF-8 come out as U+FFFD.
ToValidUTF8(s) == IF s = "/bin/<FF>" THEN "/bin/<U+FFFD>" ELSE s

\* encoding/json on a []string: null for a nil slice, else the array.
EncodeStrings(sl) ==
    IF sl.isNil THEN JNull
    ELSE JArray([i \in 1..Len(sl.elems) |-> ToValidUTF8(sl.elems[i])])

\* encoding/json on a CommandHook: the fields of the embedded *Command under
\* their json tags.
EncodeCommand(c) ==
    [path    |-> ToValidUTF8(c.Path),
     args    |-> EncodeStrings(c.Args),
     env     |-> EncodeStrings(c.Env),
     dir     |-> ToValidUTF8(c.Dir),
     timeout |-> IF c.Timeout.isNil THEN JNoNumber ELSE JNumber(c.Timeout.val)]

\* A slip a maintainer could make: giving up at the first hook that is not a
\* CommandHook instead of skipping it.
RECURSIVE serializeStopping(_, _, _)
serializeStopping(list, i, acc) ==
    IF i > Len(list) THEN acc
    ELSE IF list[i].kind = "cmd"
         THEN serializeStopping(list, i + 1, Slice(Append(acc.elems, list[i])))
         ELSE acc

\* The closure serialize, from hook i on: serializableHooks starts nil, every
\* CommandHook is appended, every other hook is skipped with a warning.
RECURSIVE serialize(_, _, _)
serialize(list, i, acc) ==
    IF i > Len(list) THEN acc
    ELSE IF list[i].kind = "cmd"
         THEN serialize(list, i + 1, Slice(Append(acc.elems, list[i])))
         ELSE serialize(list, i + 1, acc)

\* encoding/json on the []CommandHook that serialize returned.
EncodeHookList(sl, hp) ==
    IF sl.isNil THEN JNull
    ELSE JArray([i \in 1..Len(sl.elems) |-> EncodeCommand(hp[sl.elems[i].ptr])])

NotEncoded == [done |-> FALSE, err |-> "", doc |-> [k \in Range(KnownHookNames) |-> JNull]]

\* Hooks.MarshalJSON: the document and the error it returns.
MarshalJSON(h, hp) ==
    [done |-> TRUE, err |-> "",
     doc  |-> [k \in Range(KnownHookNames) |->
                 EncodeHookList(serialize(Lookup(h, k), 1, NilSlice), hp)]]

\* encoding/json into a []string.
DecodeStrings(j) == IF j.t = "null" THEN NilSlice ELSE Slice(j.elems)

\* encoding/json into a CommandHook: a fresh Command with the fields read.
DecodeCommand(j) ==
    [Path    |-> j.path,
     Args    |-> DecodeStrings(j.args),
     Env     |-> DecodeStrings(j.env),
     Dir     |-> j.dir,
     Timeout |-> IF j.timeout.t = "null" THEN NilDuration ELSE Duration(j.timeout.val)]

\* A hook with its Command in place of the pointer, the form in which two
\* registries are compared by value.
HookValue(kind, fails, c) == [kind |-> kind, fails |-> fails, cmd |-> c]
NoCommand == [Path |-> "", Args |-> NilSlice, Env |-> NilSlice, Dir |-> "",
              Timeout |-> NilDuration]

\* A slip a maintainer could make: dropping the len(commandHooks) == 0 test,
\* so that every name of the document gets a key.
UnmarshalJSONKeepEmpty(doc) ==
    [n \in DOMAIN doc |->
        [i \in 1..Len(doc[n].elems) |->
            HookValue("cmd", FALSE, DecodeCommand(doc[n].elems[i]))]]

\* Hooks.UnmarshalJSON of a document: json.Unmarshal into state, then every
\* name with at least one entry gets its list; the others get no key.
UnmarshalJSON(doc) ==
    [n \in {k \in DOMAIN doc : Len(doc[k].elems) # 0} |->
        [i \in 1..Len(doc[n].elems) |->
            HookValue("cmd", FALSE, DecodeCommand(doc[n].elems[i]))]]

NotDecoded == [done |-> FALSE, reg |-> EmptyRegistry]

JSONUnused == encoded = NotEncoded /\ decoded = NotDecoded

JSONHookChoices == {FunctionHook(FALSE)} \cup {CommandHook(p) : p \in CmdPtrs}

CallMarshalJSON ==
    /\ rpc = "idle"
    /\ ~encoded.done
    /\ encoded' = MarshalJSON(hooks, heap)
    /\ UNCHANGED <<decoded, hookVars, schedVars, cpuVars, runVars, cmdVars>>

CallUnmarshalJSON ==
    /\ encoded.done
    /\ ~decoded.done
    /\ decoded' = [done |-> TRUE, reg |-> UnmarshalJSON(encoded.doc)]
    /\ UNCHANGED <<encoded, hookVars, schedVars, cpuVars, runVars, cmdVars>>

-----------------------------------------------------------------------------
(* HookList.SetDefaultEnv *)

\* The env arguments tried.
DefaultEnvs == {Slice(<<"PATH=/bin">>), NilSlice}

\* A slip a maintainer could make: dropping the len(ch.Env) == 0 test.
RECURSIVE SetDefaultEnvAlways(_, _, _, _)
SetDefaultEnvAlways(list, i, hp, env) ==
    IF i > Len(list) THEN hp
    ELSE IF list[i].kind = "cmd"
         THEN SetDefaultEnvAlways(list, i + 1, [hp EXCEPT ![list[i].ptr].Env = env], env)
         ELSE SetDefaultEnvAlways(list, i + 1, hp, env)

\* The loop of SetDefaultEnv from hook i on, hp being the Commands so far: ch
\* is a copy of the CommandHook, but ch.Env is the field of the Command that
\* the embedded pointer shares with the list's entry.
RECURSIVE SetDefaultEnvLoop(_, _, _, _)
SetDefaultEnvLoop(list, i, hp, env) ==
    IF i > Len(list) THEN hp
    ELSE IF list[i].kind = "cmd" /\ Len(hp[list[i].ptr].Env.elems) = 0
         THEN SetDefaultEnvLoop(list, i + 1, [hp EXCEPT ![list[i].ptr].Env = env], env)
         ELSE SetDefaultEnvLoop(list, i + 1, hp, env)

SetDefaultEnv(n, env) ==
    /\ rpc = "idle"
    /\ ~encoded.done
    /\ n \in DOMAIN hooks
    /\ heap' = SetDefaultEnvLoop(hooks[n], 1, heap, env)
    /\ UNCHANGED <<hooks, schedVars, cpuVars, jsonVars, runVars, cmdVars>>

-----------------------------------------------------------------------------
(* Hooks.Run, FuncHook.Run *)

\* Errors: nil, what a callback returned, what cmd.Start returned, the child's
\* exit error annotated with stdout and stderr, the timeout error naming the
\* configured duration.
NoErr == [kind |-> "nil", status |-> "", dur |-> 0]
FuncErr == [kind |-> "func", status |-> "", dur |-> 0]
StartErr == [kind |-> "start", status |-> "", dur |-> 0]
ExitErr(st) == [kind |-> "exit", status |-> st, dur |-> 0]
TimeoutErr(d) == [kind |-> "timeout", status |-> "", dur |-> d]

\* What Hooks.Run returns: nil, or "error running <name> hook #<index>: <cause>".
NoRunErr == [isNil |-> TRUE, name |-> "", index |-> 0, cause |-> NoErr]
WrapRunErr(n, i, e) == [isNil |-> FALSE, name |-> n, index |-> i, cause |-> e]

RunIdle ==
    /\ rpc = "idle"
    /\ rname = ""
    /\ ri = 0
    /\ started = <<>>
    /\ outcomes = <<>>
    /\ rerr = NoRunErr

NoSpawn == [made |-> FALSE, Path |-> "", Args |-> NilSlice, Env |-> NilSlice,
            Dir |-> "", Stdin |-> ""]

CmdIdle ==
    /\ cpc = "none"
    /\ cptr = 0
    /\ spawnReq = NoSpawn
    /\ proc = "none"
    /\ status = ""
    /\ killCalled = FALSE
    /\ killSent = FALSE
    /\ wpc = "none"
    /\ errC = <<>>
    /\ timer = "none"
    /\ timerC = <<>>
    /\ cres = NoErr
    /\ order = <<>>
    /\ selReady = {}

\* A slip a maintainer could make: noting the error and going on to the next
\* hook.
AfterHookContinue(n, i, e) ==
    [rpc |-> "loop", ri |-> i + 1,
     rerr |-> IF e.kind # "nil" THEN WrapRunErr(n, i, e) ELSE NoRunErr]

\* The body of the loop once h.Run(state) has returned e for hook i: return
\* the wrapped error, or go on with hook i + 1.
AfterHook(n, i, e) ==
    IF e.kind # "nil"
    THEN [rpc |-> "done", ri |-> i, rerr |-> WrapRunErr(n, i, e)]
    ELSE [rpc |-> "loop", ri |-> i + 1, rerr |-> NoRunErr]

\* The call hooks.Run(n, state).
RunCall(n) ==
    /\ rpc = "idle"
    /\ ~encoded.done
    /\ rpc' = "loop"
    /\ rname' = n
    /\ ri' = 0
    /\ UNCHANGED <<started, outcomes, rerr>>
    /\ UNCHANGED <<hookVars, schedVars, cpuVars, jsonVars, cmdVars>>

\* The range loop has no hook left: return nil.
RunLoopEnd ==
    /\ rpc = "loop"
    /\ ri >= Len(Lookup(hooks, rname))
    /\ rpc' = "done"
    /\ rerr' = NoRunErr
    /\ UNCHANGED <<rname, ri, started, outcomes>>
    /\ UNCHANGED <<hookVars, schedVars, cpuVars, jsonVars, cmdVars>>

\* h.Run(state) on a FuncHook: the callback is called and returns.
RunFuncHook ==
    /\ rpc = "loop"
    /\ ri < Len(Lookup(hooks, rname))
    /\ LET h == Lookup(hooks, rname)[ri + 1]
           e == IF h.fails THEN FuncErr ELSE NoErr
           a == AfterHook(rname, ri, e)
       IN /\ h.kind = "func"
          /\ started' = Append(started, ri)
          /\ outcomes' = Append(outcomes, [index |-> ri, err |-> e])
          /\ rpc' = a.rpc
          /\ ri' = a.ri
          /\ rerr' = a.rerr
    /\ UNCHANGED <<rname, hookVars, schedVars, cpuVars, jsonVars, cmdVars>>

\* h.Run(state) on a CommandHook: Command.Run is entered with the hook's
\* pointer as receiver.
RunCommandHook ==
    /\ rpc = "loop"
    /\ ri < Len(Lookup(hooks, rname))
    /\ LET h == Lookup(hooks, rname)[ri + 1]
       IN /\ h.kind = "cmd"
          /\ started' = Append(started, ri)
          /\ rpc' = "inhook"
          /\ cpc' = "start"
          /\ cptr' = h.ptr
    /\ UNCHANGED <<rname, ri, outcomes, rerr>>
    /\ UNCHANGED <<spawnReq, proc, status, killCalled, killSent, wpc, errC, timer,
                   timerC, cres, order, selReady>>
    /\ UNCHANGED <<hookVars, schedVars, cpuVars, jsonVars>>

\* Command.Run has returned cres to the loop.
HookReturn ==
    /\ rpc = "inhook"
    /\ cpc = "ret"
    /\ LET a == AfterHook(rname, ri, cres)
       IN /\ outcomes' = Append(outcomes, [index |-> ri, err |-> cres])
          /\ rpc' = a.rpc
          /\ ri' = a.ri
          /\ rerr' = a.rerr
    /\ cpc' = "none"
    /\ cptr' = 0
    /\ spawnReq' = NoSpawn
    /\ proc' = "none"
    /\ status' = ""
    /\ killCalled' = FALSE
    /\ killSent' = FALSE
    /\ wpc' = "none"
    /\ errC' = <<>>
    /\ timer' = "none"
    /\ timerC' = <<>>
    /\ cres' = NoErr
    /\ order' = <<>>
    /\ selReady' = {}
    /\ UNCHANGED <<rname, started, hookVars, schedVars, cpuVars, jsonVars>>

\* The caller of Hooks.Run takes the result.
RunReturn ==
    /\ rpc = "done"
    /\ rpc' = "idle"
    /\ rname' = ""
    /\ ri' = 0
    /\ started' = <<>>
    /\ outcomes' = <<>>
    /\ rerr' = NoRunErr
    /\ UNCHANGED <<hookVars, schedVars, cpuVars, jsonVars, cmdVars>>

-----------------------------------------------------------------------------
(* Command.Run: the calling goroutine, the waiter goroutine, the timer and  *)
(* the child process                                                        *)

\* json.Marshal(s): the bytes of the state snapshot.
StatePayload == "state.json"

\* The exec.Cmd literal: Dir is not among the fields it sets, so it keeps the
\* zero value "" (the child starts in the caller's working directory).
ExecCmd(c, b) ==
    [made |-> TRUE, Path |-> c.Path, Args |-> c.Args, Env |-> c.Env, Dir |-> "",
     Stdin |-> b]

\* cmd.Start(): the child runs, or the error is returned at once.
CmdStart ==
    /\ cpc = "start"
    /\ spawnReq' = ExecCmd(heap[cptr], StatePayload)
    /\ \E ok \in BOOLEAN :
          IF ok THEN /\ proc' = "running"
                     /\ cpc' = "go"
                     /\ cres' = cres
                ELSE /\ proc' = proc
                     /\ cpc' = "ret"
                     /\ cres' = StartErr
    /\ UNCHANGED <<cptr, status, killCalled, killSent, wpc, errC, timer, timerC,
                   order, selReady>>
    /\ UNCHANGED <<hookVars, schedVars, cpuVars, jsonVars, runVars>>

\* errC := make(chan error, 1); go func() {...}()
CmdGo ==
    /\ cpc = "go"
    /\ wpc' = "wait"
    /\ errC' = <<>>
    /\ cpc' = "timer"
    /\ UNCHANGED <<cptr, spawnReq, proc, status, killCalled, killSent, timer, timerC,
                   cres, order, selReady>>
    /\ UNCHANGED <<hookVars, schedVars, cpuVars, jsonVars, runVars>>

\* if c.Timeout != nil { timer := time.NewTimer(*c.Timeout); ... }
CmdTimer ==
    /\ cpc = "timer"
    /\ timer' = IF heap[cptr].Timeout.isNil THEN timer ELSE "armed"
    /\ cpc' = "select"
    /\ UNCHANGED <<cptr, spawnReq, proc, status, killCalled, killSent, wpc, errC,
                   timerC, cres, order, selReady>>
    /\ UNCHANGED <<hookVars, schedVars, cpuVars, jsonVars, runVars>>

\* The channels of the select that can be received from now.
Ready == {ch \in {"errC"} : errC # <<>>} \cup {ch \in {"timerC"} : timerC # <<>>}

\* A slip a maintainer could make: a select that also takes the timeout arm
\* while nothing is ready (as a default arm would).
SelectArmsEager(ready) == IF ready = {} THEN {"timerC"} ELSE ready

\* The arms a select may take with these channels ready: any ready one, chosen
\* by the runtime; none (the goroutine parks) when nothing is ready.
SelectArms(ready) == ready

\* The deferred timer.Stop() of a return after the timer was made.
Stopped(tm) == IF tm = "armed" THEN "stopped" ELSE tm

\* The select statement is reached.
CmdSelect ==
    /\ cpc = "select"
    /\ IF SelectArms(Ready) = {}
       THEN /\ cpc' = "parked"
            /\ UNCHANGED <<errC, timerC, cres, timer, selReady>>
       ELSE \E ch \in SelectArms(Ready) :
               /\ selReady' = Ready
               /\ IF ch = "errC"
                  THEN /\ cres' = errC[1]
                       /\ errC' = <<>>
                       /\ timer' = Stopped(timer)
                       /\ cpc' = "ret"
                       /\ UNCHANGED timerC
                  ELSE /\ timerC' = <<>>
                       /\ cpc' = "kill"
                       /\ UNCHANGED <<errC, cres, timer>>
    /\ UNCHANGED <<cptr, spawnReq, proc, status, killCalled, killSent, wpc, order>>
    /\ UNCHANGED <<hookVars, schedVars, cpuVars, jsonVars, runVars>>

\* _ = cmd.Process.Kill(): the signal reaches a child that has not been waited
\* for; after the wait Kill only returns an error, which is dropped.
CmdKill ==
    /\ cpc = "kill"
    /\ killCalled' = TRUE
    /\ killSent' = (proc \in {"running", "exited"})
    /\ cpc' = "drain"
    /\ UNCHANGED <<cptr, spawnReq, proc, status, wpc, errC, timer, timerC, cres,
                   order, selReady>>
    /\ UNCHANGED <<hookVars, schedVars, cpuVars, jsonVars, runVars>>

\* A slip a maintainer could make: returning the timeout error right after
\* Kill, without the receive.
CmdDrainNoWait ==
    /\ cpc = "drain"
    /\ errC' = <<>>
    /\ cres' = TimeoutErr(heap[cptr].Timeout.val)
    /\ timer' = Stopped(timer)
    /\ cpc' = "ret"
    /\ UNCHANGED <<cptr, spawnReq, proc, status, killCalled, killSent, wpc, timerC,
                   order, selReady>>
    /\ UNCHANGED <<hookVars, schedVars, cpuVars, jsonVars, runVars>>

\* <-errC, then return the timeout error.
CmdDrain ==
    /\ cpc = "drain"
    /\ errC # <<>>
    /\ errC' = <<>>
    /\ cres' = TimeoutErr(heap[cptr].Timeout.val)
    /\ timer' = Stopped(timer)
    /\ cpc' = "ret"
    /\ UNCHANGED <<cptr, spawnReq, proc, status, killCalled, killSent, wpc, timerC,
                   order, selReady>>
    /\ UNCHANGED <<hookVars, schedVars, cpuVars, jsonVars, runVars>>

\* The child ends: by itself with success or failure, or by the signal.
ProcExit ==
    /\ proc = "running"
    /\ proc' = "exited"
    /\ \E st \in {"ok", "fail"} : status' = IF killSent THEN "killed" ELSE st
    /\ order' = Append(order, "exit")
    /\ UNCHANGED <<cpc, cptr, spawnReq, killCalled, killSent, wpc, errC, timer,
                   timerC, cres, selReady>>
    /\ UNCHANGED <<hookVars, schedVars, cpuVars, jsonVars, runVars>>

\* The waiter: cmd.Wait() returns once the child has ended, and reaps it.
WaiterWait ==
    /\ wpc = "wait"
    /\ proc = "exited"
    /\ proc' = "reaped"
    /\ wpc' = "send"
    /\ UNCHANGED <<cpc, cptr, spawnReq, status, killCalled, killSent, errC, timer,
                   timerC, cres, order, selReady>>
    /\ UNCHANGED <<hookVars, schedVars, cpuVars, jsonVars, runVars>>

\* The error the waiter sends: nil, or the exit error annotated with the
\* captured stdout and stderr.
WaitErr(st) == IF st = "ok" THEN NoErr ELSE ExitErr(st)

\* The waiter: errC <- err.  A caller parked in the select takes the value
\* and returns it; otherwise the value waits in the buffer.
WaiterSend ==
    /\ wpc = "send"
    /\ wpc' = "done"
    /\ order' = Append(order, "reported")
    /\ IF cpc = "parked"
       THEN /\ cres' = WaitErr(status)
            /\ cpc' = "ret"
            /\ timer' = Stopped(timer)
            /\ selReady' = {"errC"}
            /\ UNCHANGED errC
       ELSE /\ errC' = <<WaitErr(status)>>
            /\ UNCHANGED <<cres, cpc, timer, selReady>>
    /\ UNCHANGED <<cptr, spawnReq, proc, status, killCalled, killSent, timerC>>
    /\ UNCHANGED <<hookVars, schedVars, cpuVars, jsonVars, runVars>>

\* The timeout elapses.  A caller parked in the select takes the timeout arm;
\* otherwise the tick waits in timer.C.
TimerFire ==
    /\ timer = "armed"
    /\ timer' = "fired"
    /\ order' = Append(order, "fired")
    /\ IF cpc = "parked"
       THEN /\ cpc' = "kill"
            /\ selReady' = {"timerC"}
            /\ UNCHANGED timerC
       ELSE /\ timerC' = <<"tick">>
            /\ UNCHANGED <<cpc, selReady>>
    /\ UNCHANGED <<cptr, spawnReq, proc, status, killCalled, killSent, wpc, errC, cres>>
    /\ UNCHANGED <<hookVars, schedVars, cpuVars, jsonVars, runVars>>

-----------------------------------------------------------------------------
(* Specifications *)

HooksUnused == hooks = EmptyRegistry /\ heap = InitHeap

\* ToSchedAttr on every policy and every Flags slice of the bounds.
InitSched ==
    /\ scheduler \in SchedInputs
    /\ attr = NoAttr
    /\ CPUUnused /\ HooksUnused /\ JSONUnused /\ RunIdle /\ CmdIdle

NextSched == CallToSchedAttr

SpecSched == InitSched /\ [][NextSched]_vars

\* toCPUSet on every str of the bounds.
InitCPUSet ==
    /\ cpuStr \in SeqsUpTo(CPUAlphabet, MaxLen)
    /\ cpuRes = NotCalled
    /\ sa = NilAffinitySpec
    /\ affRes = NotCalled
    /\ SchedUnused /\ HooksUnused /\ JSONUnused /\ RunIdle /\ CmdIdle

NextCPUSet == CallToCPUSet

SpecCPUSet == InitCPUSet /\ [][NextCPUSet]_vars

\* ConvertCPUAffinity on every pair of the bounds, and on nil.
InitAffinity ==
    /\ sa \in AffinityInputs
    /\ affRes = NotCalled
    /\ cpuStr = <<>>
    /\ cpuRes = NotCalled
    /\ SchedUnused /\ HooksUnused /\ JSONUnused /\ RunIdle /\ CmdIdle

NextAffinity == CallConvertCPUAffinity

SpecAffinity == InitAffinity /\ [][NextAffinity]_vars

\* A registry is built, serialized and read back.
InitJSON ==
    /\ HooksUnused /\ JSONUnused
    /\ SchedUnused /\ CPUUnused /\ RunIdle /\ CmdIdle

NextJSON ==
    \/ \E n \in JSONNames, h \in JSONHookChoices : RegisterHook(n, h)
    \/ \E n \in JSONNames : RegisterEmpty(n)
    \/ CallMarshalJSON
    \/ CallUnmarshalJSON

SpecJSON == InitJSON /\ [][NextJSON]_vars

\* A registry is built, given default environments and run.
Init ==
    /\ HooksUnused /\ JSONUnused
    /\ SchedUnused /\ CPUUnused /\ RunIdle /\ CmdIdle

Next ==
    \/ \E n \in RunNames, h \in HookChoices : RegisterHook(n, h)
    \/ \E n \in RunNames, env \in DefaultEnvs : SetDefaultEnv(n, env)
    \/ \E n \in RunNames \cup {AbsentName} : RunCall(n)
    \/ RunLoopEnd
    \/ RunFuncHook
    \/ RunCommandHook
    \/ HookReturn
    \/ RunReturn
    \/ CmdStart
    \/ CmdGo
    \/ CmdTimer
    \/ CmdSelect
    \/ CmdKill
    \/ CmdDrain
    \/ ProcExit
    \/ WaiterWait
    \/ WaiterSend
    \/ TimerFire

Spec == Init /\ [][Next]_vars

-----------------------------------------------------------------------------
(* Properties of ToSchedAttr *)

\* The claimed table: the policies in the order of their codes 0..6, the
\* flags in the order of their bits 0x01..0x40.
PolicyOrder ==
    <<"SCHED_OTHER", "SCHED_FIFO", "SCHED_RR", "SCHED_BATCH", "SCHED_ISO",
      "SCHED_IDLE", "SCHED_DEADLINE">>
FlagOrder ==
    <<"SCHED_FLAG_RESET_ON_FORK", "SCHED_FLAG_RECLAIM", "SCHED_FLAG_DL_OVERRUN",
      "SCHED_FLAG_KEEP_POLICY", "SCHED_FLAG_KEEP_PARAMS",
      "SCHED_FLAG_UTIL_CLAMP_MIN", "SCHED_FLAG_UTIL_CLAMP_MAX">>

PositionIn(seq, x) == CHOOSE i \in 1..Len(seq) : seq[i] = x

RECURSIVE Pow2(_)
Pow2(n) == IF n = 0 THEN 1 ELSE 2 * Pow2(n - 1)

\* The sum of the bits of a set of flags: each distinct flag counts once.
RECURSIVE BitsOf(_)
BitsOf(S) ==
    IF S = {} THEN 0
    ELSE LET f == CHOOSE x \in S : TRUE
         IN Pow2(PositionIn(FlagOrder, f) - 1) + BitsOf(S \ {f})

\* C10: for a recognised policy and recognised flags, in any order and with
\* any repetitions, ToSchedAttr succeeds with the policy's code 0..6, with
\* flags equal to the OR of the bits 0x01..0x40 of the distinct flags present
\* (so depending on neither order nor multiplicity), and with Size equal to
\* the fixed struct size.
C10_SchedTable ==
    (/\ attr.called
     /\ scheduler.Policy \in Range(PolicyOrder)
     /\ Range(scheduler.Flags) \subseteq Range(FlagOrder))
    => /\ attr.ok
       /\ attr.Policy = PositionIn(PolicyOrder, scheduler.Policy) - 1
       /\ attr.Flags = BitsOf(Range(scheduler.Flags))
       /\ attr.Size = SizeofSchedAttr

\* C10's case: reclaim given twice around reset-on-fork, under the deadline
\* policy, yields code 6 and flags 0x03.
C10_Witness ==
    /\ attr.called
    /\ scheduler.Policy = "SCHED_DEADLINE"
    /\ scheduler.Flags = <<"SCHED_FLAG_RECLAIM", "SCHED_FLAG_RESET_ON_FORK",
                           "SCHED_FLAG_RECLAIM">>
    /\ attr.ok
    /\ attr.Policy = 6
    /\ attr.Flags = 3

\* The sign of a fixed-width value: a signed type with its top bit set.
Negative(v) == v.signed /\ v.limbs[Len(v.limbs)] >= LimbBase \div 2

\* 2^(16 * Len(limbs)) minus the number a limb sequence spells (for a
\* number other than zero), limb by limb from position i with a borrow.
RECURSIVE Complement(_, _, _)
Complement(limbs, i, borrow) ==
    IF i > Len(limbs) THEN <<>>
    ELSE <<(LimbBase - limbs[i] - borrow) % LimbBase>>
         \o Complement(limbs, i + 1, IF limbs[i] + borrow > 0 THEN 1 ELSE 0)

\* The number a fixed-width value denotes, as a sign and a magnitude.
NumericValue(v) ==
    [neg |-> Negative(v),
     mag |-> IF Negative(v) THEN Complement(v.limbs, 1, 0) ELSE v.limbs]

\* C11 as stated: for every accepted configuration the nice, priority,
\* runtime, deadline and period fields of the produced record are numerically
\* equal to the input fields, negative inputs included.
C11_Claimed ==
    (attr.called /\ attr.ok)
    => /\ NumericValue(attr.Nice) = NumericValue(scheduler.Nice)
       /\ NumericValue(attr.Priority) = NumericValue(scheduler.Priority)
       /\ NumericValue(attr.Runtime) = NumericValue(scheduler.Runtime)
       /\ NumericValue(attr.Deadline) = NumericValue(scheduler.Deadline)
       /\ NumericValue(attr.Period) = NumericValue(scheduler.Period)

\* C11 as amended: for every accepted configuration the nice, runtime,
\* deadline and period fields are numerically equal to the input fields,
\* and the priority field is the input converted to an unsigned 32-bit
\* value: numerically equal to a non-negative input, and equal to the input
\* plus 2^32 for a negative one.
C11_PassThrough ==
    (attr.called /\ attr.ok)
    => /\ NumericValue(attr.Nice) = NumericValue(scheduler.Nice)
       /\ NumericValue(attr.Runtime) = NumericValue(scheduler.Runtime)
       /\ NumericValue(attr.Deadline) = NumericValue(scheduler.Deadline)
       /\ NumericValue(attr.Period) = NumericValue(scheduler.Period)
       /\ ~NumericValue(attr.Priority).neg
       /\ NumericValue(attr.Priority).mag =
              IF NumericValue(scheduler.Priority).neg
              THEN Complement(NumericValue(scheduler.Priority).mag, 1, 0)
              ELSE NumericValue(scheduler.Priority).mag

\* C11's case: nice -20, priority -1 and runtime 2^64 - 1 are accepted;
\* nice and runtime come out as they went in, priority comes out as
\* 2^32 - 1.
C11_Witness ==
    /\ attr.called
    /\ attr.ok
    /\ NumericValue(scheduler.Nice) = [neg |-> TRUE, mag |-> <<20, 0>>]
    /\ NumericValue(scheduler.Priority) = [neg |-> TRUE, mag |-> <<1, 0>>]
    /\ scheduler.Runtime = Uint64(<<65535, 65535, 65535, 65535>>)
    /\ NumericValue(attr.Nice) = [neg |-> TRUE, mag |-> <<20, 0>>]
    /\ NumericValue(attr.Priority) = [neg |-> FALSE, mag |-> <<65535, 65535>>]
    /\ attr.Runtime = Uint64(<<65535, 65535, 65535, 65535>>)

-----------------------------------------------------------------------------
(* Properties of toCPUSet and ConvertCPUAffinity *)

\* The non-blank segments of a spec, trimmed.
NonBlankSegments(str) == {TrimSpace(piece) : piece \in Range(Split(str))} \ {<<>>}

\* The indices a well-formed segment names: [start, end] for a range, the
\* value for a scalar.
Named(seg) ==
    IF \E i \in 1..Len(seg) : seg[i] = "-"
    THEN LET i == CHOOSE k \in 1..Len(seg) : seg[k] = "-"
         IN {b \in 0..(maxCPU - 1) :
                /\ DecimalValue(SubSeq(seg, 1, i - 1), 0) <= b
                /\ b <= DecimalValue(SubSeq(seg, i + 1, Len(seg)), 0)}
    ELSE {DecimalValue(seg, 0)}

\* The spec with its blank segments and the white space around the others
\* removed.
RECURSIVE JoinNonBlank(_, _)
JoinNonBlank(pieces, i) ==
    IF i > Len(pieces) THEN <<>>
    ELSE LET r    == TrimSpace(pieces[i])
             rest == JoinNonBlank(pieces, i + 1)
         IN IF r = <<>> THEN rest
            ELSE IF rest = <<>> THEN r
            ELSE r \o <<",">> \o rest

Tidy(str) == JoinNonBlank(Split(str), 1)

Accepted(str, res) == res.called /\ res.ret.err = "" /\ ~res.ret.isNil

\* C8: for every spec toCPUSet accepts, the set holds exactly the indices
\* named by a scalar segment or lying in [start, end] of a range segment;
\* "0-3" gives {0,1,2,3} with count 4, "2-2" gives what "2" gives, and blank
\* segments and surrounding white space do not change the result.
C8_ExactBits ==
    Accepted(cpuStr, cpuRes) =>
       /\ cpuRes.ret.set = UNION {Named(seg) : seg \in NonBlankSegments(cpuStr)}
       /\ cpuRes.ret = toCPUSet(Tidy(cpuStr))
       /\ (cpuStr = <<"0", "-", "3">> =>
             cpuRes.ret.set = {0, 1, 2, 3} /\ CPUSetCount(cpuRes.ret.set) = 4)
       /\ (cpuStr \in {<<"2", "-", "2">>, <<"2">>} => cpuRes.ret.set = {2})

\* C8's case: a range between white space and a blank segment.
C8_Witness ==
    /\ Accepted(cpuStr, cpuRes)
    /\ cpuStr = <<" ", "1", "-", "3", ",">>
    /\ cpuRes.ret.set = {1, 2, 3}

\* A spec that is not empty and holds only blank segments.
Blank(str) == str # <<>> /\ NonBlankSegments(str) = {}

\* C9: with both specs empty ConvertCPUAffinity returns nil and no error; a
\* blank, non-empty spec on a side makes it fail and return no affinity: the
\* error is "no CPUs found" wrapped with that side, Initial being converted
\* first (so a blank Final is what is reported once Initial has passed).
C9_EmptyVersusBlank ==
    (affRes.called /\ ~sa.isNil) =>
       /\ (sa.Initial = <<>> /\ sa.Final = <<>> =>
             affRes.ret.isNil /\ affRes.ret.err = "")
       /\ (Blank(sa.Initial) =>
             /\ affRes.ret.isNil
             /\ affRes.ret.err = "no CPUs found"
             /\ affRes.ret.side = "Initial")
       /\ (Blank(sa.Final) => affRes.ret.isNil /\ affRes.ret.err # "")
       /\ (Blank(sa.Final) /\ affRes.ret.side # "Initial" =>
             /\ affRes.ret.err = "no CPUs found"
             /\ affRes.ret.side = "Final")

\* C9's case: Initial not configured, Final " , ".
C9_Witness ==
    /\ affRes.called
    /\ ~sa.isNil
    /\ sa.Initial = <<>>
    /\ sa.Final = <<" ", ",", " ">>
    /\ affRes.ret.isNil
    /\ affRes.ret.err = "no CPUs found"
    /\ affRes.ret.side = "Final"

-----------------------------------------------------------------------------
(* Properties of Hooks.MarshalJSON and Hooks.UnmarshalJSON *)

IsCommandHook(h) == h.kind = "cmd"

\* The Command hooks of a list, in their relative order.
CommandHooksOf(list) == SelectSeq(list, IsCommandHook)

RecordsOf(list) ==
    [i \in 1..Len(CommandHooksOf(list)) |->
        EncodeCommand(heap[CommandHooksOf(list)[i].ptr])]

\* C5 as claimed: serializing never fails and emits all six names, each with
\* an array value holding exactly the event's Command hooks in order.
C5_Claimed ==
    encoded.done =>
       /\ encoded.err = ""
       /\ DOMAIN encoded.doc = Range(KnownHookNames)
       /\ \A k \in Range(KnownHookNames) :
             /\ encoded.doc[k].t = "array"
             /\ encoded.doc[k].elems = RecordsOf(Lookup(hooks, k))

\* C5: serializing never fails, whatever Function hooks the registry holds,
\* and emits all six names; an event with at least one Command hook gets the
\* array of exactly its Command hooks in their order, the Function hooks
\* being skipped; an event with no Command hook (no hook at all, or only
\* Function hooks) gets the JSON value null, not an empty array.
C5_SerializedLists ==
    encoded.done =>
       /\ encoded.err = ""
       /\ DOMAIN encoded.doc = Range(KnownHookNames)
       /\ \A k \in Range(KnownHookNames) :
             /\ encoded.doc[k].elems = RecordsOf(Lookup(hooks, k))
             /\ encoded.doc[k].t =
                   IF CommandHooksOf(Lookup(hooks, k)) = <<>> THEN "null" ELSE "array"

\* C5's case: a Function hook and a Command hook under prestart, only a
\* Function hook under poststop.
C5_Witness ==
    /\ encoded.done
    /\ Lookup(hooks, "prestart") = <<FunctionHook(FALSE), CommandHook(2)>>
    /\ Lookup(hooks, "poststop") = <<FunctionHook(FALSE)>>
    /\ encoded.doc["prestart"] = JArray(<<EncodeCommand(heap[2])>>)
    /\ encoded.doc["poststop"] = JNull

\* A registry built purely from Command hooks.
PureCommand(h) == \A n \in DOMAIN h : \A i \in 1..Len(h[n]) : h[n][i].kind = "cmd"

\* The registry as a value: every hook with the Command it points to.
ValueOf(h, hp) ==
    [n \in DOMAIN h |->
        [i \in 1..Len(h[n]) |->
            HookValue(h[n][i].kind, h[n][i].fails,
                      IF h[n][i].kind = "cmd" THEN hp[h[n][i].ptr] ELSE NoCommand)]]

\* Every string of the registry's Commands is valid UTF-8.
AllValidUTF8(strs) == \A s \in strs : ToValidUTF8(s) = s

TextOf(c) == {c.Path, c.Dir} \cup Range(c.Args.elems) \cup Range(c.Env.elems)

ValidText(h, hp) ==
    \A n \in DOMAIN h : \A i \in 1..Len(h[n]) : AllValidUTF8(TextOf(hp[h[n][i].ptr]))

\* C6 as claimed: for every registry built purely from Command hooks, the
\* registry read back from its serialization is value-equal to it.  (Stated
\* here for the registries under the six fixed event names whose strings are
\* valid UTF-8, the ones the claim cannot be meant to leave out.)
C6_Claimed ==
    (/\ decoded.done
     /\ PureCommand(hooks)
     /\ DOMAIN hooks \subseteq Range(KnownHookNames)
     /\ ValidText(hooks, heap))
    => decoded.reg = ValueOf(hooks, heap)

\* C6: for a registry built purely from Command hooks, the registry read back
\* from its serialization holds exactly the fixed event names that have at
\* least one hook, each with a list of the same length, in which every hook
\* whose strings are valid UTF-8 equals the original; it is value-equal to
\* the original exactly when the original stores only fixed event names, no
\* empty list, and only valid UTF-8 strings.
C6_RoundTrip ==
    (decoded.done /\ PureCommand(hooks)) =>
       /\ DOMAIN decoded.reg =
             {n \in DOMAIN hooks \cap Range(KnownHookNames) : hooks[n] # <<>>}
       /\ \A n \in DOMAIN decoded.reg :
             /\ Len(decoded.reg[n]) = Len(hooks[n])
             /\ \A i \in 1..Len(hooks[n]) :
                   AllValidUTF8(TextOf(heap[hooks[n][i].ptr])) =>
                      decoded.reg[n][i] = HookValue("cmd", FALSE, heap[hooks[n][i].ptr])
       /\ (decoded.reg = ValueOf(hooks, heap)) <=>
             /\ DOMAIN hooks \subseteq Range(KnownHookNames)
             /\ \A n \in DOMAIN hooks : hooks[n] # <<>>
             /\ ValidText(hooks, heap)

\* C6's case: two Command hooks under one event and one under another come
\* back equal and in order.
C6_Witness ==
    /\ decoded.done
    /\ DOMAIN hooks = {"prestart", "poststop"}
    /\ hooks["prestart"] = <<CommandHook(2), CommandHook(1)>>
    /\ hooks["poststop"] = <<CommandHook(1)>>
    /\ decoded.reg = ValueOf(hooks, heap)

-----------------------------------------------------------------------------
(* Properties of HookList.SetDefaultEnv *)

\* The Commands that the Command hooks of a list point to.
PointedBy(list) == {list[i].ptr : i \in {j \in 1..Len(list) : list[j].kind = "cmd"}}

\* What SetDefaultEnv(env) on hooks[n] is claimed to do to the Commands.
EnvAssigned(n, env) ==
    /\ hooks' = hooks
    /\ \A p \in CmdPtrs :
          heap'[p] = IF p \in PointedBy(hooks[n]) /\ Len(heap[p].Env.elems) = 0
                     THEN [heap[p] EXCEPT !.Env = env]
                     ELSE heap[p]

\* C7: SetDefaultEnv(env) gives env to every Command hook of the list whose
\* environment is unset (has no entry) and changes nothing else: a Command
\* hook with an environment keeps it, path, args, dir and timeout stay, the
\* list and its Function hooks stay; and a later Run of the list spawns the
\* hook with the environment the Command then holds.
C7_DefaultEnv ==
    /\ [][\A n \in RunNames, env \in DefaultEnvs :
             SetDefaultEnv(n, env) => EnvAssigned(n, env)]_vars
    /\ [](spawnReq.made =>
             /\ spawnReq.Env = heap[cptr].Env
             /\ spawnReq.Path = heap[cptr].Path
             /\ spawnReq.Args = heap[cptr].Args)

\* C7's case: in a list holding a Function hook, a Command hook with an
\* environment and one without, the latter got the default and is being run
\* with it, the former kept its own.
C7_Witness ==
    /\ rpc = "inhook"
    /\ Lookup(hooks, rname) = <<FunctionHook(FALSE), CommandHook(2), CommandHook(1)>>
    /\ heap[1] = [InitHeap[1] EXCEPT !.Env = Slice(<<"PATH=/bin">>)]
    /\ heap[2] = InitHeap[2]
    /\ cptr = 1
    /\ spawnReq.made
    /\ spawnReq.Env = Slice(<<"PATH=/bin">>)

-----------------------------------------------------------------------------
(* Properties of Hooks.Run and Command.Run *)

Failed(k) == outcomes[k].err.kind # "nil"

\* C1: the hooks of the list are started one after another in insertion
\* order, each at most once and only when the one before has returned nil;
\* once hook i returns an error no further hook is started, and Hooks.Run
\* returns that error wrapped with the name and the 0-based index i; when no
\* hook fails all have run and nil is returned.
C1_FailFast ==
    LET list == Lookup(hooks, rname) IN
    /\ Len(started) <= Len(list)
    /\ \A k \in 1..Len(started) : started[k] = k - 1
    /\ \A k \in 1..Len(outcomes) : outcomes[k].index = k - 1
    /\ Len(outcomes) <= Len(started)
    /\ Len(started) <= Len(outcomes) + 1
    /\ \A k \in 1..Len(outcomes) :
          /\ Failed(k) => Len(started) = k
          /\ list[k].kind = "func" => (Failed(k) <=> list[k].fails)
    /\ rpc = "done" =>
          IF \E k \in 1..Len(outcomes) : Failed(k)
          THEN rerr = WrapRunErr(rname, Len(outcomes) - 1, outcomes[Len(outcomes)].err)
          ELSE rerr.isNil /\ Len(outcomes) = Len(list)

\* C1's case: [A succeeds, B fails, C]: the error names index 1, C never
\* started.
C1_Witness ==
    /\ rpc = "done"
    /\ Len(Lookup(hooks, rname)) = 3
    /\ ~rerr.isNil
    /\ rerr.index = 1
    /\ rerr.name = rname
    /\ started = <<0, 1>>

Returned == rpc = "inhook" /\ cpc = "ret"

\* C2: Command.Run returns the timeout error only after Kill was called and
\* the waiter has waited for the child and reported; the error names the
\* configured duration; and whenever Run returns after a successful start the
\* child has been waited for and the waiter has finished.
C2_TimeoutReaps ==
    /\ (Returned /\ cres.kind = "timeout") =>
          /\ killCalled
          /\ proc = "reaped"
          /\ wpc = "done"
          /\ errC = <<>>
          /\ ~heap[cptr].Timeout.isNil
          /\ cres.dur = heap[cptr].Timeout.val
    /\ (Returned /\ cres.kind # "start") => (proc = "reaped" /\ wpc = "done")

\* C2's case: the timeout arm won, the child was killed and reaped.
C2_Witness ==
    /\ Returned
    /\ cres.kind = "timeout"
    /\ status = "killed"
    /\ proc = "reaped"

PositionOf(e) == CHOOSE i \in 1..Len(order) : order[i] = e

Before(a, b) ==
    /\ a \in Range(order)
    /\ (b \in Range(order) => PositionOf(a) < PositionOf(b))

\* C3 as claimed: with a timeout configured, the event that occurs first
\* decides: an exit reported before the timeout elapses gives the child's own
\* result and never the timeout error; a timeout that elapses before the
\* child exits gives the timeout error.
C3_Claimed ==
    (Returned /\ cres.kind # "start" /\ ~heap[cptr].Timeout.isNil) =>
       /\ (Before("reported", "fired") => cres.kind # "timeout")
       /\ (Before("fired", "exit") => cres.kind = "timeout")

\* C3: the result is decided by what the caller's select receives: when only
\* the waiter's report is there, Run returns the child's own result (nil or
\* the annotated exit error); when only the timer has fired, Run returns the
\* timeout error; when both have happened before the caller selects, either
\* may be returned, whichever happened first.  Run returns the timeout error
\* only if the timer fired, and the child's result only if the child ended
\* without Kill having been called.
C3_SelectDecides ==
    (Returned /\ cres.kind # "start") =>
       /\ selReady # {}
       /\ (selReady = {"errC"} => cres.kind \in {"nil", "exit"})
       /\ (selReady = {"timerC"} => cres.kind = "timeout")
       /\ (cres.kind = "timeout" =>
             /\ "timerC" \in selReady
             /\ "fired" \in Range(order)
             /\ ~heap[cptr].Timeout.isNil)
       /\ (cres.kind # "timeout" =>
             /\ "errC" \in selReady
             /\ "reported" \in Range(order)
             /\ ~killCalled
             /\ status # "killed"
             /\ cres = WaitErr(status))

\* C3's case: the child's exit was reported, then the timer fired, then the
\* caller selected and took the timeout arm.
C3_Witness ==
    /\ Returned
    /\ order = <<"exit", "reported", "fired">>
    /\ selReady = {"errC", "timerC"}
    /\ cres.kind = "timeout"

\* C4 as claimed: the child is spawned with the hook's path, args,
\* environment and working directory, with the state snapshot on stdin.
C4_SpawnUsesDir ==
    (spawnReq.made /\ proc = "running") =>
       /\ spawnReq.Path = heap[cptr].Path
       /\ spawnReq.Args = heap[cptr].Args
       /\ spawnReq.Env = heap[cptr].Env
       /\ spawnReq.Stdin = StatePayload
       /\ spawnReq.Dir = heap[cptr].Dir

=============================================================================
